---- MODULE Spec2Model ----
(***************************************************************************)
(* Model of email_analysis/vector_db_manager.py: the VectorDBManager       *)
(* wrapper over a persistent vector store (chromadb) and an embedding      *)
(* model (sentence_transformers).  Every call the wrapper makes to the     *)
(* store, the embedding model or the file system may raise; a call that    *)
(* raises has no effect on the store.                                      *)
(***************************************************************************)
EXTENDS Integers, Sequences, FiniteSets, TLC

\* ---------------------------------------------------------------- bounds
\* uuid4 identifiers handed out in one behaviour
MaxId == 3
\* longest sequence of records given to add_emails
MaxBatch == 2
\* largest n_results given to search_emails
MaxLimit == 2

\* ------------------------------------------------------------- config.py
VECTOR_DB_PATH == "./vector_db"
COLLECTION_NAME == "email_collection"

\* --------------------------------------------------- python values
\* A python value is written as its type and its literal.
Queries == {"str:hello", "str:world"}

\* bool(v) for the values text_content takes
Truthy(v) == v \notin {"str:", "None"}

\* str(v)
Str(v) ==
  CASE v = "int:1" -> "1"
    [] v = "str:test" -> "test"
    [] v = "None" -> "None"
    [] v = "str:" -> ""
    [] v = "str:hello" -> "hello"
    [] v = "str:world" -> "world"
    [] OTHER -> v

\* dict.get(k, default)
Get(d, k, default) == IF k \in DOMAIN d THEN d[k] ELSE default

\* the email records add_emails is given: two with text and metadata,
\* one with an empty text, one with no text field
Records ==
  { [text_content |-> "str:hello", subject |-> "int:1"],
    [text_content |-> "str:world", subject |-> "str:test"],
    [text_content |-> "str:", subject |-> "str:test"],
    [subject |-> "int:1"] }

RECURSIVE SeqsUpTo(_, _)
SeqsUpTo(S, n) ==
  IF n = 0 THEN { <<>> }
  ELSE LET shorter == SeqsUpTo(S, n - 1)
       IN shorter \cup { Append(s, x) : s \in { t \in shorter : Len(t) = n - 1 }, x \in S }

EmailBatches == SeqsUpTo(Records, MaxBatch)

\* ------------------------------------------------ embedding provider
\* SentenceTransformer.encode on one text: a fixed vector per text
EncodeOne(t) ==
  CASE t = "str:hello" -> 2
    [] t = "str:world" -> 5
    [] t = "str:other" -> 3
    [] OTHER -> 0

\* encode(documents): one vector per text, in order
Encode(docs) == [i \in 1..Len(docs) |-> EncodeOne(docs[i])]

\* the store's distance between two embeddings (squared L2)
Distance(a, b) == (a - b) * (a - b)

VARIABLES
  client,        \* self.client: "None" or "client"
  collection,    \* self.collection: "None", or a handle that is "live" or "stale"
  dir_exists,    \* os.path.exists(self.db_path)
  store_exists,  \* the store holds a collection named COLLECTION_NAME
  items,         \* the StoredItems of that collection, in insertion order
  next_id,       \* the next identifier uuid4 returns
  op,            \* the last public operation called
  emails,        \* its argument (add_emails)
  query,         \* its argument (search_emails)
  n_results,     \* its argument (search_emails)
  result,        \* what it returned
  calls,         \* the external calls it made, in order, with their outcome
  encoded,       \* the texts it passed to the embedding provider
  prev_done      \* the operation called before the last one, when it
                 \* returned True (the constructor: when it returned)

vars == << client, collection, dir_exists, store_exists, items, next_id,
           op, emails, query, n_results, result, calls, encoded,
           prev_done >>

\* ------------------------------------------------------ return values
NoValue == [kind |-> "None", bool |-> FALSE, list |-> <<>>,
            name |-> "", count |-> 0, path |-> ""]
RetBool(b) == [NoValue EXCEPT !.kind = "bool", !.bool = b]
RetNone == NoValue
RetList(l) == [NoValue EXCEPT !.kind = "list", !.list = l]
RetEmptyDict == [NoValue EXCEPT !.kind = "empty_dict"]
\* {'name': self.collection_name, 'count': count, 'path': self.db_path}
RetInfo(n) == [NoValue EXCEPT !.kind = "dict", !.name = COLLECTION_NAME,
                              !.count = n, !.path = VECTOR_DB_PATH]
\* an exception leaving the operation
RetRaise == [NoValue EXCEPT !.kind = "raise"]

\* ------------------------------------------------------ the machine
\* The part of the state an operation reads and writes while it runs.
Machine ==
  [ client |-> client, collection |-> collection, dir |-> dir_exists,
    exists |-> store_exists, items |-> items, next_id |-> next_id,
    calls |-> <<>>, encoded |-> <<>> ]

\* Outcome of a piece of code: the machine after it, whether an exception
\* is propagating, and the value returned.
Ok(m, v) == [m |-> m, exc |-> FALSE, val |-> v]
Raised(m) == [m |-> m, exc |-> TRUE, val |-> RetRaise]

Log(m, fn, ok) == [m EXCEPT !.calls = Append(@, [fn |-> fn, ok |-> ok])]

\* Except without its handler: the exception leaves the operation
ExceptMissing(r, default) == r

\* except Exception as e: print(...); return default
Except(r, default) == IF r.exc THEN Ok(r.m, default) ELSE r

\* ------------------------------------------------------ external calls
\* The calls that can raise for a reason of their own (I/O error, model
\* error, store error); F is the set of those that do in one operation.
CallNames ==
  { "makedirs", "PersistentClient", "get_collection", "create_collection",
    "encode", "collection.add", "collection.query", "collection.count",
    "delete_collection", "reset", "rmtree" }

\* os.makedirs(self.db_path, exist_ok=True)
Makedirs(m, F) ==
  IF "makedirs" \in F THEN Raised(Log(m, "makedirs", FALSE))
  ELSE Ok([Log(m, "makedirs", TRUE) EXCEPT !.dir = TRUE], RetNone)

\* chromadb.PersistentClient(path=self.db_path, settings=...)
PersistentClient(m, F) ==
  IF "PersistentClient" \in F THEN Raised(Log(m, "PersistentClient", FALSE))
  ELSE Ok(Log(m, "PersistentClient", TRUE), RetNone)

\* client.get_collection(name): raises when the store has no such collection
GetCollection(m, F) ==
  IF "get_collection" \in F \/ ~m.exists THEN Raised(Log(m, "get_collection", FALSE))
  ELSE Ok(Log(m, "get_collection", TRUE), RetNone)

\* client.create_collection(name, metadata): raises when the name is taken
CreateCollection(m, F) ==
  IF "create_collection" \in F \/ m.exists THEN Raised(Log(m, "create_collection", FALSE))
  ELSE Ok([Log(m, "create_collection", TRUE) EXCEPT !.exists = TRUE, !.items = <<>>], RetNone)

\* client.delete_collection(name): raises when the store has no such
\* collection; every handle to the deleted collection goes stale
DeleteCollection(m, F) ==
  IF "delete_collection" \in F \/ ~m.exists THEN Raised(Log(m, "delete_collection", FALSE))
  ELSE Ok([Log(m, "delete_collection", TRUE) EXCEPT
             !.exists = FALSE, !.items = <<>>,
             !.collection = IF @ = "live" THEN "stale" ELSE @], RetNone)

\* client.reset(): wipes every collection of the store
ClientReset(m, F) ==
  IF "reset" \in F THEN Raised(Log(m, "reset", FALSE))
  ELSE Ok([Log(m, "reset", TRUE) EXCEPT
             !.exists = FALSE, !.items = <<>>,
             !.collection = IF @ = "live" THEN "stale" ELSE @], RetNone)

\* shutil.rmtree(self.db_path): the store's files go with the directory
Rmtree(m, F) ==
  IF "rmtree" \in F THEN Raised(Log(m, "rmtree", FALSE))
  ELSE Ok([Log(m, "rmtree", TRUE) EXCEPT
             !.dir = FALSE, !.exists = FALSE, !.items = <<>>,
             !.collection = IF @ = "live" THEN "stale" ELSE @], RetNone)

\* self.embedding_model.encode(texts).tolist()
ModelEncode(m, texts, F) ==
  LET m1 == [m EXCEPT !.encoded = @ \o texts]
  IN IF "encode" \in F THEN Raised(Log(m1, "encode", FALSE))
     ELSE Ok(Log(m1, "encode", TRUE), RetNone)

\* collection.add(embeddings, documents, metadatas, ids): raises on None
\* (AttributeError) and on a handle whose collection is gone
CollectionAdd(m, embeddings, documents, metadatas, ids, F) ==
  IF "collection.add" \in F \/ m.collection # "live"
    THEN Raised(Log(m, "collection.add", FALSE))
  ELSE Ok([Log(m, "collection.add", TRUE) EXCEPT
             !.items = @ \o [i \in 1..Len(ids) |->
                 [id |-> ids[i], embedding |-> embeddings[i],
                  document |-> documents[i], metadata |-> metadatas[i]]]],
          RetNone)

\* collection.count()
CollectionCount(m, F) ==
  IF "collection.count" \in F \/ m.collection # "live"
    THEN Raised(Log(m, "collection.count", FALSE))
  ELSE Ok(Log(m, "collection.count", TRUE), RetInfo(Len(m.items)))

\* The orders in which the store can return the k nearest items to the
\* embedding q: ascending by distance, ties in any order.
NearestOrders(its, q, k) ==
  LET n == Len(its)
      kk == IF k < n THEN k ELSE n
      d(i) == Distance(its[i].embedding, q)
  IN { o \in [1..kk -> 1..n] :
         /\ \A i, j \in 1..kk : i # j => o[i] # o[j]
         /\ \A i, j \in 1..kk : i < j => d(o[i]) <= d(o[j])
         /\ \A i \in 1..kk : \A x \in 1..n :
              (\A j \in 1..kk : o[j] # x) => d(o[i]) <= d(x) }

\* collection.query(query_embeddings, n_results, include): raises on a
\* stale handle and on n_results < 1; o is the order the store chose
CollectionQuery(m, query_embedding, n, o, F) ==
  IF "collection.query" \in F \/ m.collection # "live" \/ n < 1
    THEN Raised(Log(m, "collection.query", FALSE))
  ELSE Ok(Log(m, "collection.query", TRUE),
          [documents |-> << [i \in 1..Len(o) |-> m.items[o[i]].document] >>,
           metadatas |-> << [i \in 1..Len(o) |-> m.items[o[i]].metadata] >>,
           distances |-> << [i \in 1..Len(o) |->
                              Distance(m.items[o[i]].embedding, query_embedding[1])] >>])

\* ------------------------------------------------------ VectorDBManager
\* _initialize_db that forgets the old handle before it opens the store
InitializeDbDropsHandle(m, F) ==
  LET m0 == [m EXCEPT !.collection = "None"]
      r1 == Makedirs(m0, F)
  IN IF r1.exc THEN Raised(r1.m)
     ELSE LET r2 == PersistentClient(r1.m, F)
          IN IF r2.exc THEN Raised(r2.m)
             ELSE LET r3 == GetCollection([r2.m EXCEPT !.client = "client"], F)
                  IN IF ~r3.exc THEN Ok([r3.m EXCEPT !.collection = "live"], RetNone)
                     ELSE LET r4 == CreateCollection(r3.m, F)
                          IN IF r4.exc THEN Raised(r4.m)
                             ELSE Ok([r4.m EXCEPT !.collection = "live"], RetNone)

\* _initialize_db; the exception it raises is the wrapped one of line 47
InitializeDb(m, F) ==
  LET r1 == Makedirs(m, F)
  IN IF r1.exc THEN Raised(r1.m)
     ELSE LET r2 == PersistentClient(r1.m, F)
          IN IF r2.exc THEN Raised(r2.m)
             ELSE LET r3 == GetCollection([r2.m EXCEPT !.client = "client"], F)
                  IN IF ~r3.exc THEN Ok([r3.m EXCEPT !.collection = "live"], RetNone)
                     ELSE LET r4 == CreateCollection(r3.m, F)     \* bare except:
                          IN IF r4.exc THEN Raised(r4.m)
                             ELSE Ok([r4.m EXCEPT !.collection = "live"], RetNone)

\* Metadata without the str() conversion
MetadataRaw(email_data) ==
  [k \in (DOMAIN email_data) \ {"text_content"} |-> email_data[k]]

\* metadata = {k: str(v) for k, v in email_data.items() if k != 'text_content'}
Metadata(email_data) ==
  [k \in (DOMAIN email_data) \ {"text_content"} |-> Str(email_data[k])]

\* Kept testing only that the field is there
KeptIfPresent(email_data) == "text_content" \in DOMAIN email_data

\* the record is kept: text_content = email_data.get('text_content', ''),
\* and not (not text_content)
Kept(email_data) == Truthy(Get(email_data, "text_content", "str:"))

\* Prepare with break in place of continue: it stops at the first record
\* without text
RECURSIVE PrepareBreak(_, _)
PrepareBreak(es, id0) ==
  IF es = <<>> THEN [documents |-> <<>>, metadatas |-> <<>>, ids |-> <<>>]
  ELSE IF ~Kept(Head(es)) THEN [documents |-> <<>>, metadatas |-> <<>>, ids |-> <<>>]
  ELSE LET rest == PrepareBreak(Tail(es), id0 + 1)
       IN [documents |-> <<Get(Head(es), "text_content", "str:")>> \o rest.documents,
           metadatas |-> <<Metadata(Head(es))>> \o rest.metadatas,
           ids |-> <<id0>> \o rest.ids]

\* the for loop of add_emails: documents, metadatas and ids of the kept
\* records, ids taken from uuid4 in turn starting at id0
RECURSIVE Prepare(_, _)
Prepare(es, id0) ==
  IF es = <<>> THEN [documents |-> <<>>, metadatas |-> <<>>, ids |-> <<>>]
  ELSE IF ~Kept(Head(es)) THEN Prepare(Tail(es), id0)
  ELSE LET rest == Prepare(Tail(es), id0 + 1)
       IN [documents |-> <<Get(Head(es), "text_content", "str:")>> \o rest.documents,
           metadatas |-> <<Metadata(Head(es))>> \o rest.metadatas,
           ids |-> <<id0>> \o rest.ids]

\* AddEmailsBody without the "if not documents" test
AddEmailsBodyNoDocumentsTest(m, es, F) ==
  IF es = <<>> THEN Ok(m, RetBool(FALSE))
  ELSE LET p == Prepare(es, m.next_id)
           m1 == [m EXCEPT !.next_id = @ + Len(p.ids)]
           r1 == ModelEncode(m1, p.documents, F)
       IN IF r1.exc THEN Raised(r1.m)
          ELSE LET r2 == CollectionAdd(r1.m, Encode(p.documents), p.documents,
                                       p.metadatas, p.ids, F)
               IN IF r2.exc THEN Raised(r2.m)
                  ELSE Ok(r2.m, RetBool(TRUE))

\* the try block of add_emails
AddEmailsBody(m, es, F) ==
  IF es = <<>> THEN Ok(m, RetBool(FALSE))
  ELSE LET p == Prepare(es, m.next_id)
           m1 == [m EXCEPT !.next_id = @ + Len(p.ids)]
       IN IF p.documents = <<>> THEN Ok(m1, RetBool(FALSE))
          ELSE LET r1 == ModelEncode(m1, p.documents, F)
               IN IF r1.exc THEN Raised(r1.m)
                  ELSE LET r2 == CollectionAdd(r1.m, Encode(p.documents), p.documents,
                                               p.metadatas, p.ids, F)
                       IN IF r2.exc THEN Raised(r2.m)
                          ELSE Ok(r2.m, RetBool(TRUE))

AddEmails(m, es, F) == Except(AddEmailsBody(m, es, F), RetBool(FALSE))

\* FormatResults building the list back to front
FormatResultsReversed(results) ==
  IF results.documents # <<>> /\ results.documents[1] # <<>>
    THEN LET n == Len(results.documents[1])
         IN [i \in 1..n |->
               [document |-> results.documents[1][n + 1 - i],
                metadata |-> results.metadatas[1][n + 1 - i],
                distance |-> results.distances[1][n + 1 - i]]]
  ELSE <<>>

\* the "Format results" block of search_emails
FormatResults(results) ==
  IF results.documents # <<>> /\ results.documents[1] # <<>>
    THEN [i \in 1..Len(results.documents[1]) |->
            [document |-> results.documents[1][i],
             metadata |-> results.metadatas[1][i],
             distance |-> results.distances[1][i]]]
  ELSE <<>>

\* the try block of search_emails
SearchEmailsBody(m, q, n, o, F) ==
  IF m.collection = "None" THEN Ok(m, RetList(<<>>))
  ELSE LET r1 == ModelEncode(m, <<q>>, F)
       IN IF r1.exc THEN Raised(r1.m)
          ELSE LET r2 == CollectionQuery(r1.m, Encode(<<q>>), n, o, F)
               IN IF r2.exc THEN Raised(r2.m)
                  ELSE Ok(r2.m, RetList(FormatResults(r2.val)))

SearchEmails(m, q, n, o, F) == Except(SearchEmailsBody(m, q, n, o, F), RetList(<<>>))

\* the try block of get_collection_info
GetCollectionInfoBody(m, F) ==
  IF m.collection = "None" THEN Ok(m, RetEmptyDict)
  ELSE LET r1 == CollectionCount(m, F)
       IN IF r1.exc THEN Raised(r1.m) ELSE Ok(r1.m, RetInfo(r1.val.count))

GetCollectionInfo(m, F) == Except(GetCollectionInfoBody(m, F), RetEmptyDict)

\* ClearCollectionBody that goes on to create_collection when
\* delete_collection raised
ClearCollectionBodyIgnoresDelete(m, F) ==
  IF m.collection = "None" THEN Ok(m, RetNone)
  ELSE LET r1 == DeleteCollection(m, F)
           r2 == CreateCollection(r1.m, F)
       IN IF r2.exc THEN Raised(r2.m)
          ELSE Ok([r2.m EXCEPT !.collection = "live"], RetBool(TRUE))

\* ClearCollectionBody that recreates nothing: it keeps the collection
ClearCollectionBodyKeeps(m, F) ==
  IF m.collection = "None" THEN Ok(m, RetNone)
  ELSE LET r1 == GetCollection(m, F)
       IN IF r1.exc THEN Raised(r1.m)
          ELSE Ok([r1.m EXCEPT !.collection = "live"], RetBool(TRUE))

\* the try block of clear_collection; without a collection the function
\* falls off its end and returns None
ClearCollectionBody(m, F) ==
  IF m.collection = "None" THEN Ok(m, RetNone)
  ELSE LET r1 == DeleteCollection(m, F)
       IN IF r1.exc THEN Raised(r1.m)
          ELSE LET r2 == CreateCollection(r1.m, F)
               IN IF r2.exc THEN Raised(r2.m)
                  ELSE Ok([r2.m EXCEPT !.collection = "live"], RetBool(TRUE))

ClearCollection(m, F) == Except(ClearCollectionBody(m, F), RetBool(FALSE))

\* DeleteDatabaseBody without the reinitialization
DeleteDatabaseBodyNoReinit(m, F) ==
  LET r1 == IF m.client # "None" THEN ClientReset(m, F) ELSE Ok(m, RetNone)
  IN IF r1.exc THEN Raised(r1.m)
     ELSE LET r2 == IF r1.m.dir THEN Rmtree(r1.m, F) ELSE Ok(r1.m, RetNone)
          IN IF r2.exc THEN Raised(r2.m) ELSE Ok(r2.m, RetBool(TRUE))

\* the try block of delete_database
DeleteDatabaseBody(m, F) ==
  LET r1 == IF m.client # "None" THEN ClientReset(m, F) ELSE Ok(m, RetNone)
  IN IF r1.exc THEN Raised(r1.m)
     ELSE LET r2 == IF r1.m.dir THEN Rmtree(r1.m, F) ELSE Ok(r1.m, RetNone)
          IN IF r2.exc THEN Raised(r2.m)
             ELSE LET r3 == InitializeDb(r2.m, F)
                  IN IF r3.exc THEN Raised(r3.m) ELSE Ok(r3.m, RetBool(TRUE))

DeleteDatabase(m, F) == Except(DeleteDatabaseBody(m, F), RetBool(FALSE))

\* ------------------------------------------------------ state machine
\* The state after VectorDBManager() on a path with no store yet:
\* _initialize_db created the directory and an empty collection.
Init ==
  /\ client = "client"
  /\ collection = "live"
  /\ dir_exists = TRUE
  /\ store_exists = TRUE
  /\ items = <<>>
  /\ next_id = 1
  /\ op = "__init__"
  /\ emails = <<>>
  /\ query = "None"
  /\ n_results = 0
  /\ result = RetNone
  /\ calls = << [fn |-> "makedirs", ok |-> TRUE], [fn |-> "PersistentClient", ok |-> TRUE],
                [fn |-> "get_collection", ok |-> FALSE],
                [fn |-> "create_collection", ok |-> TRUE] >>
  /\ encoded = <<>>
  /\ prev_done = "None"

\* what every operation does with its outcome r
Commit(name, es, q, n, r) ==
  /\ client' = r.m.client
  /\ collection' = r.m.collection
  /\ dir_exists' = r.m.dir
  /\ store_exists' = r.m.exists
  /\ items' = r.m.items
  /\ next_id' = r.m.next_id
  /\ op' = name
  /\ emails' = es
  /\ query' = q
  /\ n_results' = n
  /\ result' = r.val
  /\ calls' = r.m.calls
  /\ encoded' = r.m.encoded
  /\ prev_done' = IF op = "__init__" \/ result = RetBool(TRUE) THEN op ELSE "None"

\* The sets of raising calls tried for an operation that makes the calls S.
\* An operation ends at the first call that raises, except that
\* _initialize_db goes on after get_collection, so one raising call besides
\* get_collection covers every outcome.
Faults(S) == { F \in SUBSET S : Cardinality(F \ {"get_collection"}) <= 1 }

DoAddEmails ==
  \E es \in EmailBatches, F \in Faults({"encode", "collection.add"}) :
    /\ next_id + Len(Prepare(es, next_id).ids) - 1 <= MaxId
    /\ Commit("add_emails", es, "None", 0, AddEmails(Machine, es, F))

DoSearchEmails ==
  \E q \in Queries, n \in 0..MaxLimit, F \in Faults({"encode", "collection.query"}) :
    \E o \in NearestOrders(items, EncodeOne(q), n) :
      Commit("search_emails", <<>>, q, n, SearchEmails(Machine, q, n, o, F))

DoGetCollectionInfo ==
  \E F \in Faults({"collection.count"}) :
    Commit("get_collection_info", <<>>, "None", 0, GetCollectionInfo(Machine, F))

DoClearCollection ==
  \E F \in Faults({"delete_collection", "create_collection"}) :
    Commit("clear_collection", <<>>, "None", 0, ClearCollection(Machine, F))

DoDeleteDatabase ==
  \E F \in Faults({"reset", "rmtree", "makedirs", "PersistentClient",
                   "get_collection", "create_collection"}) :
    Commit("delete_database", <<>>, "None", 0, DeleteDatabase(Machine, F))

Next ==
  \/ DoAddEmails
  \/ DoSearchEmails
  \/ DoGetCollectionInfo
  \/ DoClearCollection
  \/ DoDeleteDatabase

Spec == Init /\ [][Next]_vars

TypeOK ==
  /\ client \in {"None", "client"}
  /\ collection \in {"None", "live", "stale"}
  /\ result.kind \in {"bool", "None", "list", "empty_dict", "dict", "raise"}

\* ------------------------------------------------------ properties
\* the record has no text_content field, or an empty one
LacksText(e) == "text_content" \notin DOMAIN e \/ e["text_content"] = "str:"

\* how many records of es have a non-empty text_content
NumWithText(es) == Cardinality({ i \in 1..Len(es) : ~LacksText(es[i]) })

\* no external call of the sequence cs raised
AllOk(cs) == \A i \in 1..Len(cs) : cs[i].ok

\* the external call fn was made in cs and raised
Failed(cs, fn) == \E i \in 1..Len(cs) : cs[i].fn = fn /\ ~cs[i].ok

PublicOps ==
  { "add_emails", "search_emails", "get_collection_info",
    "clear_collection", "delete_database" }

\* the benign value an operation turns an exception into
Benign(o) ==
  CASE o \in {"add_emails", "clear_collection", "delete_database"} -> RetBool(FALSE)
    [] o = "search_emails" -> RetList(<<>>)
    [] o = "get_collection_info" -> RetEmptyDict

\* C1: add_emails on an empty sequence, or on records that all lack text,
\* returns False, calls neither the embedding provider nor the collection,
\* and leaves the collection and its item count as they were.
C1_AddNothing ==
  [][ (op' = "add_emails" /\ \A i \in 1..Len(emails') : LacksText(emails'[i]))
        => /\ result' = RetBool(FALSE)
           /\ calls' = <<>>
           /\ encoded' = <<>>
           /\ items' = items
           /\ store_exists' = store_exists
           /\ collection' = collection ]_vars

C1_Witness ==
  /\ op = "add_emails"
  /\ Len(emails) = 2
  /\ \A i \in 1..Len(emails) : LacksText(emails[i])
  /\ result = RetBool(FALSE)
  /\ Len(items) = 2

\* C2: when no external call fails, add_emails on records of which N >= 1
\* have a non-empty text returns True and the item count grows by exactly N.
C2_AddCountsValid ==
  [][ (op' = "add_emails" /\ NumWithText(emails') >= 1 /\ AllOk(calls'))
        => /\ result' = RetBool(TRUE)
           /\ store_exists'
           /\ Len(items') = Len(items) + NumWithText(emails') ]_vars

C2_Witness ==
  /\ op = "add_emails"
  /\ result = RetBool(TRUE)
  /\ Len(emails) = 2
  /\ NumWithText(emails) = 1
  /\ Len(items) = 3

\* C3 as stated: no public operation lets an exception out, and whenever
\* an external call of the operation raised, the operation returned its
\* benign value (False, the empty list, the empty mapping).
C3_AnyRaiseGivesBenign ==
  op \in PublicOps =>
    /\ result.kind # "raise"
    /\ (~AllOk(calls) => result = Benign(op))

\* C3: no public operation lets an exception out, and whenever an external
\* call other than the get_collection lookup of _initialize_db raised, the
\* operation returned its benign value; a raising get_collection is
\* answered by create_collection and does not by itself fail the operation.
C3_NeverPropagates ==
  op \in PublicOps =>
    /\ result.kind # "raise"
    /\ (\E i \in 1..Len(calls) : ~calls[i].ok /\ calls[i].fn # "get_collection")
         => result = Benign(op)
    /\ (Failed(calls, "get_collection") /\ result # Benign(op))
         => op = "delete_database" /\ result = RetBool(TRUE)

C3_Witness ==
  /\ op = "delete_database"
  /\ Failed(calls, "get_collection")
  /\ Failed(calls, "create_collection")
  /\ result = RetBool(FALSE)

\* C4: a clear_collection that returned True, followed at once by a
\* get_collection_info whose count call does not fail, gives count 0 under
\* the configured collection name; clear_collection never removes the
\* storage directory.
C4_ClearThenInfo ==
  [][ /\ (op = "clear_collection" /\ result = RetBool(TRUE)
          /\ op' = "get_collection_info" /\ AllOk(calls'))
        => result' = RetInfo(0) /\ result'.name = COLLECTION_NAME
      /\ op' = "clear_collection"
        => /\ dir_exists' = dir_exists
           /\ \A i \in 1..Len(calls') : calls'[i].fn # "rmtree"
           /\ result' = RetBool(TRUE) => items' = <<>> /\ store_exists' ]_vars

C4_Witness ==
  /\ prev_done = "clear_collection"
  /\ op = "get_collection_info"
  /\ result = RetInfo(0)
  /\ next_id > 2
  /\ dir_exists

\* the external calls of a delete_database that succeeds, when the storage
\* directory existed (d) and when it did not
DeleteCalls(d) ==
  << [fn |-> "reset", ok |-> TRUE] >>
  \o (IF d THEN << [fn |-> "rmtree", ok |-> TRUE] >> ELSE <<>>)
  \o << [fn |-> "makedirs", ok |-> TRUE], [fn |-> "PersistentClient", ok |-> TRUE],
        [fn |-> "get_collection", ok |-> FALSE], [fn |-> "create_collection", ok |-> TRUE] >>

\* C5: a delete_database that returns True has reset the store, then removed
\* the storage directory (rmtree, called exactly when the directory is
\* there), then reinitialized; afterwards the directory exists, the
\* collection is empty, get_collection_info reports count 0 and an
\* add_emails of a record with text returns True (no call failing).
C5_DeleteThenFresh ==
  [][ /\ (op' = "delete_database" /\ result' = RetBool(TRUE))
        => /\ calls' = DeleteCalls(dir_exists)
           /\ dir_exists' /\ store_exists' /\ items' = <<>>
           /\ collection' = "live"
      /\ (op = "delete_database" /\ result = RetBool(TRUE)
          /\ op' = "get_collection_info" /\ AllOk(calls'))
        => result' = RetInfo(0) /\ dir_exists'
      /\ (\/ op = "delete_database" /\ result = RetBool(TRUE)
          \/ op = "get_collection_info" /\ prev_done = "delete_database")
         /\ op' = "add_emails" /\ NumWithText(emails') >= 1 /\ AllOk(calls')
        => result' = RetBool(TRUE) ]_vars

C5_Witness ==
  /\ prev_done = "delete_database"
  /\ op = "add_emails"
  /\ result = RetBool(TRUE)
  /\ Len(items) = 1
  /\ next_id > 2

\* the (document, metadata, distance) triple of the stored item it for the
\* query text q
Triple(it, q) ==
  [document |-> it.document, metadata |-> it.metadata,
   distance |-> Distance(it.embedding, EncodeOne(q))]

\* the least distance from the query text q to a stored item
IsMinDistance(d, its, q) ==
  /\ \E j \in 1..Len(its) : d = Distance(its[j].embedding, EncodeOne(q))
  /\ \A j \in 1..Len(its) : d <= Distance(its[j].embedding, EncodeOne(q))

\* C6: search_emails(query, limit) returns at most limit results, the
\* triples of distinct stored items in the order the store returned them,
\* ascending by distance; on the freshly constructed empty collection it
\* returns the empty list and raises nothing.
C6_SearchOrdered ==
  [][ op' = "search_emails"
        => /\ result'.kind = "list"
           /\ Len(result'.list) <= n_results'
           /\ Len(result'.list) <= Len(items)
           /\ \A i, j \in 1..Len(result'.list) :
                i < j => result'.list[i].distance <= result'.list[j].distance
           /\ \/ result'.list = <<>>
              \/ \E o \in NearestOrders(items, EncodeOne(query'), n_results') :
                   result'.list = [i \in 1..Len(o) |-> Triple(items[o[i]], query')]
           /\ AllOk(calls') /\ n_results' >= 1 /\ Len(items) >= n_results'
                => Len(result'.list) = n_results'
           /\ op = "__init__" => result' = RetList(<<>>) ]_vars

C6_Witness ==
  /\ op = "search_emails"
  /\ Len(items) = 3
  /\ n_results = 2
  /\ Len(result.list) = 2
  /\ result.list[1].distance < result.list[2].distance
  /\ result.list[1].document # items[1].document

\* the fields of the record e other than its text, each as python's str()
\* gives it: the int 1 as "1", the string "test" as "test"
Stringified(e) ==
  [k \in (DOMAIN e) \ {"text_content"} |->
     IF e[k] = "int:1" THEN "1" ELSE IF e[k] = "str:test" THEN "test" ELSE "?"]

\* the stored items at the least distance from the query text q
Nearest(its, q) ==
  { j \in 1..Len(its) :
      IsMinDistance(Distance(its[j].embedding, EncodeOne(q)), its, q) }

\* C7: after an add_emails that returned True, a search_emails for the text
\* of one of the added records with limit 1 (no call failing) returns
\* exactly one result, at the least distance over all stored items; when no
\* other stored item is as near, its document is that text and its metadata
\* the record's other fields, each turned into a string.
C7_RoundTrip ==
  [][ (op = "add_emails" /\ result = RetBool(TRUE)
       /\ op' = "search_emails" /\ n_results' = 1 /\ AllOk(calls'))
        => \A k \in 1..Len(emails) :
             (~LacksText(emails[k]) /\ query' = emails[k]["text_content"])
               => /\ Len(result'.list) = 1
                  /\ IsMinDistance(result'.list[1].distance, items, query')
                  /\ Cardinality(Nearest(items, query')) = 1
                       => /\ result'.list[1].document = emails[k]["text_content"]
                          /\ result'.list[1].metadata = Stringified(emails[k]) ]_vars

C7_Witness ==
  /\ prev_done = "add_emails"
  /\ op = "search_emails"
  /\ n_results = 1
  /\ Len(items) = 2
  /\ items[1].document # query
  /\ items[2].document = query
  /\ result.list = << [document |-> "str:hello", metadata |-> [subject |-> "1"],
                       distance |-> 0] >>

\* C8: no stored item has an empty or absent text, and add_emails never
\* passes such a text to the embedding provider.
C8_NoEmptyText ==
  /\ \A j \in 1..Len(items) : items[j].document \notin {"str:", "None"}
  /\ op = "add_emails" => \A i \in 1..Len(encoded) : encoded[i] \notin {"str:", "None"}
  /\ op = "add_emails" => Len(encoded) \in {0, NumWithText(emails)}

C8_Witness ==
  /\ op = "add_emails"
  /\ Len(emails) = 2
  /\ LacksText(emails[1])
  /\ "text_content" \in DOMAIN emails[1]
  /\ encoded = << "str:world" >>
  /\ Len(items) = 3

\* C9: once constructed, the manager never loses its collection handle,
\* so clear_collection returns True or False and nothing else: True when
\* delete_collection and create_collection both succeeded, False when
\* either raised.
C9_ClearReturnsBool ==
  /\ collection # "None"
  /\ op = "clear_collection" =>
       /\ result.kind = "bool"
       /\ result.bool <=> calls = << [fn |-> "delete_collection", ok |-> TRUE],
                                     [fn |-> "create_collection", ok |-> TRUE] >>
       /\ ~result.bool <=> ~AllOk(calls)

C9_Witness ==
  /\ op = "clear_collection"
  /\ result = RetBool(FALSE)
  /\ collection = "stale"
  /\ ~dir_exists

\* C10 as stated: whenever clear_collection or delete_database returns
\* False, the collection still exists with the items it had.
C10_FailureKeepsItems ==
  [][ (store_exists /\ op' \in {"clear_collection", "delete_database"}
       /\ result' = RetBool(FALSE))
        => store_exists' /\ items' = items ]_vars

\* C10: when clear_collection or delete_database returns False because its
\* first store call (delete_collection, reset) raised, the collection, its
\* items and the handle are as before; when a later step raised, the
\* collection is gone from the store.
C10_FirstStepFailureKeepsItems ==
  [][ (op' \in {"clear_collection", "delete_database"} /\ result' = RetBool(FALSE))
        => /\ Len(calls') >= 1
           /\ Len(calls') = 1
                => /\ calls'[1].fn \in {"delete_collection", "reset"}
                   /\ store_exists' = store_exists
                   /\ items' = items
                   /\ collection' = collection
                   /\ dir_exists' = dir_exists
           /\ Len(calls') > 1
                => ~store_exists' /\ items' = <<>> /\ collection' = "stale" ]_vars

C10_Witness ==
  /\ op = "clear_collection"
  /\ result = RetBool(FALSE)
  /\ calls = << [fn |-> "delete_collection", ok |-> FALSE] >>
  /\ Len(items) = 2
  /\ collection = "live"

====
